---- MODULE Spec2Model ----
(***************************************************************************)
(* RabbitMQService (src/src/infrastructure/queue/email-consumer.ts,        *)
(* lines 61-319): the request/reply correlation layer on top of amqplib.   *)
(*                                                                         *)
(* The service runs on a single-threaded event loop.  Every action below   *)
(* is one run-to-completion slice of the code: the synchronous part of an  *)
(* API call, the continuation of an await, a timer callback, the reply     *)
(* listener, or a promise reaction (microtask).  Microtasks queued by a    *)
(* slice run before any timer or I/O callback; synchronous caller code may *)
(* still run before them.                                                  *)
(*                                                                         *)
(* The driver (amqplib) is modelled at its interface: a channel that is    *)
(* closing or closed refuses to send (channel.publish throws) and delivers *)
(* no further message to its consumers; closing a connection closes its    *)
(* channel; close() on a channel or connection that is already closed      *)
(* rejects; any pending driver call may also be rejected by the broker.    *)
(* At most one connect() and one close() are in progress at a time.        *)
(***************************************************************************)
EXTENDS Integers, Sequences, FiniteSets, TLC

\* ---------------------------------------------------------------- bounds
MaxCalls == 2         \* Spec: sendRPC calls that pass the guard
MaxLinkCalls == 1     \* SpecLink: sendRPC calls that pass the guard
MaxOptionCalls == 2   \* SpecOptions: sendRPC calls that pass the guard
MaxRoundTripCalls == 2  \* SpecRoundTrip: sendRPC calls that pass the guard
MaxReconnectCalls == 2  \* SpecReconnect: sendRPC calls that pass the guard
MaxTextLen == 3         \* SpecNormalize: characters of an address list in dto.to
MaxEmails == 2          \* SpecEmails: sendEmail calls

\* ------------------------------------------------------- program constants
DefaultTimeout == 30000

\* ------------------------------------------------------------ input sets
ConnIds == {1}                        \* Spec: the connections the driver hands out
LinkConnIds == {1, 2}                 \* SpecLink: the same, with a reconnect
NoCorr == ""                          \* absent / falsy correlation id
CorrIds == {"A", "B"}                 \* caller-supplied correlation ids
LinkCorrIds == {"A"}                  \* SpecLink: the same
Queues == {"svc-q"}                   \* queue argument of the API calls
RpcQueues == {"user-service-queue", "order-service-queue"}  \* SpecOptions: the same
TimeoutOpts == {0, 100}               \* options.timeout; 0 and absent are both falsy
ReplyContents == {"7", "{"}           \* msg.content.toString() of a reply
NoReplyTo == ""                       \* absent / falsy replyTo
ReplyTos == {"amq.gen-1", "amq.gen-2"}  \* reply queues named by requesters
Responses == {7, 12}                  \* the response a handler passes to context.reply
JsonNumbers == 0 .. 20                \* the numbers whose JSON text is decoded

\* randomUUID(): a value no caller supplies and no two calls share
randomUUID(c) == IF c = 1 THEN "uuid-1" ELSE IF c = 2 THEN "uuid-2"
                 ELSE IF c = 3 THEN "uuid-3" ELSE "uuid-4"

AllCorr == CorrIds \cup {randomUUID(c) : c \in 1..MaxCalls}

\* the name the broker gives to the reply queue declared on channel n
ReplyQueueName(n) == IF n = 1 THEN "amq.gen-1" ELSE "amq.gen-2"

\* ---------------------------------------------------------- error values
ErrRPCNotInit == "RabbitMQ not properly initialized for RPC"
ErrChannelNotInit == "RabbitMQ channel not initialized"
ErrTimeout == "RPC timeout"
ErrParse == "Failed to parse RPC reply"
ErrClosed == "RabbitMQ connection closed"
ErrPublish == "publish failed"

\* config.rabbitmq.exchange / config.rabbitmq.routingKey
Exchange == "config.rabbitmq.exchange"
RoutingKey == "config.rabbitmq.routingKey"

VARIABLES
  connection,          \* this.connection: 0 (null) or a connection id
  channel,             \* this.channel: 0 (null) or a channel id
  replyQueue,          \* this.replyQueue: 0 (null) or the id of the declared queue
  pendingRPCRequests,  \* this.pendingRPCRequests: correlation id -> call
  calls,               \* the promises, callbacks and timers created by sendRPC,
                       \* with the envelope each call handed to channel.publish
  micro,               \* queued reactions of publish(...).catch, oldest first
  connectPc,           \* where the running connect() is suspended
  closePc,             \* where the running close() is suspended
  nConn,               \* connect() calls so far; the k-th creates connection/channel k
  connOpen,            \* connections open in the driver
  chanOpen,            \* channels open in the driver
  listening,           \* channels whose reply listener is attached
  consumers,           \* <<channel, queue>> handlers attached by consume()
  published,           \* envelopes handed to channel.publish
  delivered,           \* the message handed last to a consume() handler
  last,                \* the slice that ran last and its outcome
  dto,                 \* the SendEmailDto a caller is about to normalize
  normalized,          \* what normalizeSendEmailDto returned for it
  sendEmailCalls,      \* the EmailsService.sendEmail calls and where each is suspended
  emailsTable          \* the rows of the "emails" table: savedEmail.id -> status, error

vars == <<connection, channel, replyQueue, pendingRPCRequests, calls, micro,
          connectPc, closePc, nConn, connOpen, chanOpen, listening, consumers,
          published, delivered, last, dto, normalized, sendEmailCalls,
          emailsTable>>

svc == <<connection, channel, replyQueue>>
driver == <<nConn, connOpen, chanOpen, listening>>
contract == <<dto, normalized>>
mail == <<sendEmailCalls, emailsTable>>

\* to: the replyTo a reply was asked to go to
EvTo(op, outcome, corr, to) ==
  [op |-> op, outcome |-> outcome, corr |-> corr, to |-> to]

Ev(op, outcome, corr) == EvTo(op, outcome, corr, NoReplyTo)

\* no message was delivered yet
NoDelivery ==
  [channel |-> 0, replyTo |-> NoReplyTo, correlationId |-> NoCorr,
   request |-> 0, replied |-> {}, handler |-> "none", state |-> "none", on |-> 0]

\* new Map()
EmptyMap == [k \in {} |-> 0]

Pending == [kind |-> "pending", err |-> "", from |-> "", value |-> 0]

\* a field of a SendEmailDto: undefined, a string (its characters) or an
\* array of strings
Undefined == [kind |-> "undefined", text |-> << >>, items |-> << >>]
StringValue(t) == [kind |-> "string", text |-> t, items |-> << >>]
ArrayValue(xs) == [kind |-> "array", text |-> << >>, items |-> xs]

\* no dto is being normalized
NoDto ==
  [to |-> Undefined, cc |-> Undefined, bcc |-> Undefined,
   fromDisplayName |-> Undefined, fromEmail |-> Undefined,
   subject |-> Undefined, title |-> Undefined,
   body |-> Undefined, message |-> Undefined, html |-> Undefined]

\* normalizeSendEmailDto was not called yet
NoNormalized ==
  [to |-> << >>, displayName |-> Undefined, from |-> Undefined,
   cc |-> << >>, bcc |-> << >>, subject |-> Undefined, body |-> Undefined,
   html |-> Undefined]

InitService ==
  /\ connection = 0
  /\ channel = 0
  /\ replyQueue = 0
  /\ pendingRPCRequests = EmptyMap
  /\ calls = << >>
  /\ micro = << >>
  /\ connectPc = "idle"
  /\ closePc = "idle"
  /\ nConn = 0
  /\ connOpen = {}
  /\ chanOpen = {}
  /\ listening = {}
  /\ consumers = {}
  /\ published = {}
  /\ delivered = NoDelivery
  /\ last = Ev("new", "ok", NoCorr)

Init ==
  /\ InitService
  /\ dto = NoDto
  /\ normalized = NoNormalized
  /\ sendEmailCalls = << >>
  /\ emailsTable = << >>

\* reactions that run before the event loop takes the next timer or I/O event:
\* the queued catch reactions, and a close() resumed from awaiting undefined
MicrotasksPending ==
  micro # << >> \/ closePc \in {"no channel", "no connection"}

\* ------------------------------------------------- Map, promise and timers
MapSet(m, k, v) == [x \in DOMAIN m \cup {k} |-> IF x = k THEN v ELSE m[x]]
MapDelete(m, k) == [x \in DOMAIN m \ {k} |-> m[x]]
MapValues(m) == {m[k] : k \in DOMAIN m}

\* a clearTimeout that leaves the timer running
clearTimeoutForgets(cs, c) == cs

\* clearTimeout: a timer that fired or was cleared stays as it is
clearTimeout(cs, c) ==
  [cs EXCEPT ![c].timer = IF @ = "live" THEN "cleared" ELSE @]

\* the promise's resolve function: only the first settlement takes effect
resolve(cs, c, from, v) ==
  [cs EXCEPT ![c].resolves = @ + 1,
             ![c].promise = IF @.kind = "pending"
                            THEN [kind |-> "resolved", err |-> "", from |-> from, value |-> v]
                            ELSE @]

\* the promise's reject function
reject(cs, c, e) ==
  [cs EXCEPT ![c].rejects = @ + 1,
             ![c].promise = IF @.kind = "pending"
                            THEN [kind |-> "rejected", err |-> e, from |-> "", value |-> 0]
                            ELSE @]

\* Number.prototype.toString() for the non-negative integers used as timeouts
RECURSIVE NumberToString(_)
NumberToString(n) ==
  LET d == n % 10
      ch == IF d = 0 THEN "0" ELSE IF d = 1 THEN "1" ELSE IF d = 2 THEN "2"
            ELSE IF d = 3 THEN "3" ELSE IF d = 4 THEN "4" ELSE IF d = 5 THEN "5"
            ELSE IF d = 6 THEN "6" ELSE IF d = 7 THEN "7" ELSE IF d = 8 THEN "8"
            ELSE "9"
  IN IF n < 10 THEN ch ELSE NumberToString(n \div 10) \o ch

\* JSON.stringify(response), for the numbers used as responses
JSONStringify(v) == NumberToString(v)

\* JSON.parse(msg.content.toString()): the text of a number decodes to that
\* number, any other text used here is malformed
JSONParse(s) ==
  IF \E n \in JsonNumbers : NumberToString(n) = s
  THEN [ok |-> TRUE, value |-> CHOOSE n \in JsonNumbers : NumberToString(n) = s]
  ELSE [ok |-> FALSE, value |-> 0]

\* ------------------------------------------------------------- publish
\* a publish() that leaves the expiration out
PublishOptionsNoExpiration(replyTo, correlationId, expiration) ==
  [exchange |-> Exchange, routingKey |-> RoutingKey, persistent |-> TRUE,
   replyTo |-> replyTo, correlationId |-> correlationId, expiration |-> ""]

\* publish() builds the options and hands the message to channel.publish on
\* the configured exchange and routing key; falsy options are left out
PublishOptions(replyTo, correlationId, expiration) ==
  [exchange |-> Exchange, routingKey |-> RoutingKey, persistent |-> TRUE,
   replyTo |-> replyTo, correlationId |-> correlationId, expiration |-> expiration]

\* where channel.publish sends an envelope: its exchange and routing key
Destination(e) == <<e.exchange, e.routingKey>>

\* publish() throws when JSON.stringify / Buffer.from cannot encode the
\* message, and when the driver refuses to send on a closing or closed channel
PublishThrows(serializable) == ~serializable \/ channel \notin chanOpen

\* ------------------------------------------------------------- sendRPC
\* a guard that forgets the reply queue
RPCInitializedChannelOnly == channel # 0

\* the guard of sendRPC (line 208)
RPCInitialized == channel # 0 /\ replyQueue # 0

\* an id that is generated whatever the caller supplies
CorrelationIdAlwaysGenerated(corrOpt, c) == randomUUID(c)

\* options?.correlationId || randomUUID()
CorrelationIdOf(corrOpt, c) == IF corrOpt # NoCorr THEN corrOpt ELSE randomUUID(c)

\* options?.timeout || 30000
\* a timeout that is used as it was given, 0 included
TimeoutOfKeepsZero(timeoutOpt) == timeoutOpt

TimeoutOfIgnoresOption(timeoutOpt) == DefaultTimeout

TimeoutOf(timeoutOpt) == IF timeoutOpt # 0 THEN timeoutOpt ELSE DefaultTimeout

\* this.pendingRPCRequests.set(correlationId, {resolve, reject, timeoutId})
Register(m, correlationId, c) == MapSet(m, correlationId, c)

NewCall(queue, correlationId, timeoutOpt, timeout) ==
  [queue |-> queue, corr |-> correlationId, timeoutOpt |-> timeoutOpt,
   timeout |-> timeout, timer |-> "live",
   resolves |-> 0, rejects |-> 0, promise |-> Pending, sent |-> {}]

SendRPC(queue, corrOpt, timeoutOpt, serializable) ==
  IF ~RPCInitialized
  THEN /\ last' = Ev("sendRPC", ErrRPCNotInit, NoCorr)
       /\ UNCHANGED <<svc, pendingRPCRequests, calls, micro, connectPc, closePc,
                      driver, consumers, published, delivered,
                 contract, mail>>
  ELSE LET c == Len(calls) + 1
           correlationId == CorrelationIdOf(corrOpt, c)
           timeout == TimeoutOf(timeoutOpt)
           envelope == PublishOptions(replyQueue, correlationId, NumberToString(timeout))
       IN /\ pendingRPCRequests' = Register(pendingRPCRequests, correlationId, c)
          /\ IF PublishThrows(serializable)
             THEN /\ calls' = Append(calls, NewCall(queue, correlationId, timeoutOpt, timeout))
                  /\ micro' = Append(micro, c)
                  /\ UNCHANGED published
             ELSE /\ calls' = Append(calls, [NewCall(queue, correlationId, timeoutOpt, timeout)
                                               EXCEPT !.sent = {envelope}])
                  /\ published' = published \cup {envelope}
                  /\ UNCHANGED micro
          /\ last' = Ev("sendRPC", "pending", corrOpt)
          /\ UNCHANGED <<svc, connectPc, closePc, driver, consumers, delivered,
                 contract, mail>>

\* the reaction of publish(...).catch (lines 234-238), run as a microtask
PublishCatchCalls(c) == reject(clearTimeout(calls, c), c, ErrPublish)

PublishCatchMap(c) == MapDelete(pendingRPCRequests, calls[c].corr)

PublishCatch ==
  /\ micro # << >>
  /\ LET c == Head(micro)
     IN /\ calls' = PublishCatchCalls(c)
        /\ pendingRPCRequests' = PublishCatchMap(c)
        /\ last' = Ev("publishCatch", "ok", NoCorr)
  /\ micro' = Tail(micro)
  /\ UNCHANGED <<svc, connectPc, closePc, driver, consumers, published, delivered,
                 contract, mail>>

\* the setTimeout callback (lines 217-220)
TimeoutCallbackCalls(c) ==
  reject([calls EXCEPT ![c].timer = "fired"], c, ErrTimeout)

\* a timer callback that forgets to delete the entry
TimeoutCallbackMapKeeps(c) == pendingRPCRequests

TimeoutCallbackMap(c) == MapDelete(pendingRPCRequests, calls[c].corr)

TimerFires(c) ==
  /\ ~MicrotasksPending
  /\ calls[c].timer = "live"
  /\ calls' = TimeoutCallbackCalls(c)
  /\ pendingRPCRequests' = TimeoutCallbackMap(c)
  /\ last' = Ev("timeout", "ok", NoCorr)
  /\ UNCHANGED <<svc, micro, connectPc, closePc, driver, consumers, published, delivered,
                 contract, mail>>

\* ------------------------------------------------------ handleRPCReply
\* a lookup that takes the entry registered first, whatever the id
PendingGetOldest(m, correlationId) ==
  IF DOMAIN m = {} THEN 0
  ELSE CHOOSE c \in MapValues(m) : \A d \in MapValues(m) : c <= d

\* a lookup that falls back to some entry when the id has none
PendingGetFallback(m, correlationId) ==
  IF correlationId \in DOMAIN m THEN m[correlationId]
  ELSE IF DOMAIN m = {} THEN 0
  ELSE m[CHOOSE k \in DOMAIN m : TRUE]

\* this.pendingRPCRequests.get(correlationId); 0 stands for undefined
PendingGet(m, correlationId) ==
  IF correlationId \in DOMAIN m THEN m[correlationId] ELSE 0

\* a catch block that only logs the undecodable reply
SettleReplyDropsUnparsable(cs, c, correlationId, content) ==
  IF JSONParse(content).ok
  THEN resolve(clearTimeout(cs, c), c, correlationId, JSONParse(content).value)
  ELSE clearTimeout(cs, c)

\* lines 146-154: cancel the timer, then resolve with the decoded content or
\* reject with the parse error
SettleReply(cs, c, correlationId, content) ==
  IF JSONParse(content).ok
  THEN resolve(clearTimeout(cs, c), c, correlationId, JSONParse(content).value)
  ELSE reject(clearTimeout(cs, c), c, ErrParse)

\* the listener attached by initializeReplyQueue hands every message of the
\* reply queue to handleRPCReply (lines 135-156)
HandleRPCReply(correlationId, content) ==
  LET c == PendingGet(pendingRPCRequests, correlationId)
      parsed == JSONParse(content)
  IN IF correlationId = NoCorr
     THEN /\ last' = Ev("handleRPCReply", "no correlationId", correlationId)
          /\ UNCHANGED <<calls, pendingRPCRequests>>
     ELSE IF c = 0
     THEN /\ last' = Ev("handleRPCReply", "unknown", correlationId)
          /\ UNCHANGED <<calls, pendingRPCRequests>>
     ELSE /\ pendingRPCRequests' = MapDelete(pendingRPCRequests, correlationId)
          /\ calls' = SettleReply(calls, c, correlationId, content)
          /\ last' = Ev("handleRPCReply",
                        IF parsed.ok THEN "resolved" ELSE ErrParse, correlationId)

ReplyArrives(ch, correlationId, content) ==
  /\ ~MicrotasksPending
  /\ ch \in listening
  /\ HandleRPCReply(correlationId, content)
  /\ UNCHANGED <<svc, micro, connectPc, closePc, driver, consumers, published, delivered,
                 contract, mail>>

\* --------------------------------------------------- publish and consume
Publish(queue, serializable) ==
  /\ IF channel = 0
     THEN /\ last' = Ev("publish", ErrChannelNotInit, NoCorr)
          /\ UNCHANGED published
     ELSE IF PublishThrows(serializable)
     THEN /\ last' = Ev("publish", ErrPublish, NoCorr)
          /\ UNCHANGED published
     ELSE /\ published' = published \cup {PublishOptions(0, NoCorr, "")}
          /\ last' = Ev("publish", "ok", NoCorr)
  /\ UNCHANGED <<svc, pendingRPCRequests, calls, micro, connectPc, closePc,
                 driver, consumers, delivered,
                 contract, mail>>

\* consume() attaches the handler through channel.consume; the driver
\* rejects the call on a closing or closed channel
Consume(queue) ==
  /\ IF channel = 0
     THEN /\ last' = Ev("consume", ErrChannelNotInit, NoCorr)
          /\ UNCHANGED consumers
     ELSE IF channel \notin chanOpen
     THEN /\ last' = Ev("consume", "channel closed", NoCorr)
          /\ UNCHANGED consumers
     ELSE /\ consumers' = consumers \cup {<<channel, queue>>}
          /\ last' = Ev("consume", "ok", NoCorr)
  /\ UNCHANGED <<svc, pendingRPCRequests, calls, micro, connectPc, closePc,
                 driver, published, delivered,
                 contract, mail>>

\* ------------------------------------------- sendRPCReply and handlers
\* channel.sendToQueue(replyTo, buffer, {correlationId}): the driver publishes
\* to the default exchange with the queue name as routing key
ReplyOptionsToExchange(replyTo, correlationId) ==
  [exchange |-> Exchange, routingKey |-> RoutingKey, persistent |-> FALSE,
   replyTo |-> 0, correlationId |-> correlationId, expiration |-> ""]

ReplyOptions(replyTo, correlationId) ==
  [exchange |-> "", routingKey |-> replyTo, persistent |-> FALSE,
   replyTo |-> 0, correlationId |-> correlationId, expiration |-> ""]

\* a guard that lets every call through
ChannelInitializedAlways == TRUE

\* the guard of sendRPCReply (line 253)
ChannelInitialized == channel # 0

\* the body of sendRPCReply, called as op by the API user or by context.reply
SendRPCReply(op, replyTo, correlationId, serializable) ==
  IF ~ChannelInitialized
  THEN /\ last' = EvTo(op, ErrChannelNotInit, correlationId, replyTo)
       /\ UNCHANGED published
  ELSE IF PublishThrows(serializable)
  THEN /\ last' = EvTo(op, ErrPublish, correlationId, replyTo)
       /\ UNCHANGED published
  ELSE /\ published' = published \cup {ReplyOptions(replyTo, correlationId)}
       /\ last' = EvTo(op, "ok", correlationId, replyTo)

SendRPCReplyCall(replyTo, correlationId, serializable) ==
  /\ SendRPCReply("sendRPCReply", replyTo, correlationId, serializable)
  /\ UNCHANGED <<svc, pendingRPCRequests, calls, micro, connectPc, closePc,
                 driver, consumers, delivered,
                 contract, mail>>

\* this.channel!.ack(msg) and this.channel!.nack(msg, false, false) throw a
\* TypeError on a null channel, and the driver throws on a closed one
SettleThrows == channel = 0 \/ channel \notin chanOpen

\* the end of the consume callback (lines 294-299): ack after the handler
\* returned, nack from the catch block; a throwing nack leaves the callback
\* with an error nobody catches
Settled(m, throws) ==
  IF SettleThrows THEN [m EXCEPT !.state = "uncaught"]
  ELSE [m EXCEPT !.state = IF throws THEN "nacked" ELSE "acked", !.on = channel]

\* a message in the callback of consume(): request is the sendRPC call that
\* published it (0: some other publisher), replied the responses sent for it
\* that the broker has not yet delivered
Handling(ch, replyTo, correlationId, request, parses) ==
  [channel |-> ch, replyTo |-> replyTo, correlationId |-> correlationId,
   request |-> request, replied |-> {},
   handler |-> IF parses THEN "running" ELSE "none",
   state |-> "handling", on |-> 0]

\* the driver hands a message of a consumed queue to the callback of
\* consume() (lines 272-292): unparsable content goes to the catch block,
\* otherwise the handler starts with the message's context
Deliver(ch, queue, replyTo, correlationId, parses) ==
  /\ ~MicrotasksPending
  /\ <<ch, queue>> \in consumers
  /\ ch \in chanOpen
  /\ delivered.state # "handling"
  /\ LET m == Handling(ch, replyTo, correlationId, 0, parses)
     IN delivered' = IF parses THEN m ELSE Settled(m, TRUE)
  /\ last' = EvTo("deliver", delivered'.state, correlationId, replyTo)
  /\ UNCHANGED <<svc, pendingRPCRequests, calls, micro, connectPc, closePc,
                 driver, consumers, published, contract, mail>>

\* a test that looks at replyTo alone
HasReplyToOnly(m) == m.replyTo # NoReplyTo

\* msg.properties.replyTo && msg.properties.correlationId (line 284)
HasReplyProperties(m) == m.replyTo # NoReplyTo /\ m.correlationId # NoCorr

\* the handler calls context.reply(response) (lines 283-291); a response
\* that was sent is on its way to the reply queue
ContextReply(response, serializable) ==
  /\ delivered.state = "handling"
  /\ IF HasReplyProperties(delivered)
     THEN /\ SendRPCReply("context.reply", delivered.replyTo,
                          delivered.correlationId, serializable)
          /\ delivered' = IF ChannelInitialized /\ ~PublishThrows(serializable)
                          THEN [delivered EXCEPT !.replied = @ \cup {response}]
                          ELSE delivered
     ELSE /\ last' = EvTo("context.reply", "ok", delivered.correlationId,
                          delivered.replyTo)
          /\ UNCHANGED <<published, delivered>>
  /\ UNCHANGED <<svc, pendingRPCRequests, calls, micro, connectPc, closePc,
                 driver, consumers, contract, mail>>

\* the request published by call c arrives at a consumer of the request queue
DeliverRequest(ch, queue, c) ==
  /\ ~MicrotasksPending
  /\ <<ch, queue>> \in consumers
  /\ ch \in chanOpen
  /\ delivered.state # "handling"
  /\ calls[c].sent # {}
  /\ LET e == CHOOSE e \in calls[c].sent : TRUE
     IN /\ delivered' = Handling(ch, ReplyQueueName(e.replyTo), e.correlationId, c, TRUE)
        /\ last' = EvTo("deliver", "handling", e.correlationId,
                        ReplyQueueName(e.replyTo))
  /\ UNCHANGED <<svc, pendingRPCRequests, calls, micro, connectPc, closePc,
                 driver, consumers, published, contract, mail>>

\* the broker delivers a response sent for the delivered request to the
\* listener of the reply queue it was addressed to
ReplyOfDeliveredArrives(ch, response) ==
  /\ ~MicrotasksPending
  /\ ch \in listening
  /\ response \in delivered.replied
  /\ delivered.replyTo = ReplyQueueName(ch)
  /\ HandleRPCReply(delivered.correlationId, JSONStringify(response))
  /\ delivered' = [delivered EXCEPT !.replied = @ \ {response}]
  /\ UNCHANGED <<svc, micro, connectPc, closePc, driver, consumers, published,
                 contract, mail>>

\* the handler's promise settles and the callback acks or nacks
HandlerEnds(throws) ==
  /\ delivered.state = "handling"
  /\ delivered' = Settled([delivered EXCEPT
                             !.handler = IF throws THEN "threw" ELSE "returned"],
                          throws)
  /\ last' = EvTo("handler", delivered'.state, delivered.correlationId,
                  delivered.replyTo)
  /\ UNCHANGED <<svc, pendingRPCRequests, calls, micro, connectPc, closePc,
                 driver, consumers, published, contract, mail>>

\* ------------------------------------------------------------- connect
\* connect() (lines 74-102) suspends at seven awaits; connectPc names the
\* call whose result is awaited
ConnectCall ==
  /\ connectPc = "idle"
  /\ nConn' = nConn + 1
  /\ connectPc' = "amqp.connect"
  /\ last' = Ev("connect", "pending", NoCorr)
  /\ UNCHANGED <<svc, pendingRPCRequests, calls, micro, closePc, connOpen,
                 chanOpen, listening, consumers, published, delivered,
                 contract, mail>>

\* the catch block of connect(): log and rethrow, the fields stay as they are
ConnectThrows ==
  /\ connectPc' = "idle"
  /\ last' = Ev("connect", "error", NoCorr)

\* the next call on this.channel: a TypeError once close() has set it to null
ConnectNext(pc) ==
  IF channel = 0
  THEN ConnectThrows
  ELSE /\ connectPc' = pc
       /\ last' = Ev("connect", "pending", NoCorr)

ConnectStep(ok) ==
  /\ ~MicrotasksPending
  /\ connectPc # "idle"
  /\ IF connectPc = "amqp.connect"
     THEN IF ok
          THEN /\ connection' = nConn
               /\ connOpen' = connOpen \cup {nConn}
               /\ connectPc' = "createChannel"
               /\ last' = Ev("connect", "pending", NoCorr)
               /\ UNCHANGED <<channel, replyQueue, chanOpen, listening>>
          ELSE /\ ConnectThrows
               /\ UNCHANGED <<svc, connOpen, chanOpen, listening>>
     ELSE IF connectPc = "createChannel"
     THEN IF ok /\ nConn \in connOpen
          THEN /\ channel' = nConn
               /\ chanOpen' = chanOpen \cup {nConn}
               /\ connectPc' = "assertExchange"
               /\ last' = Ev("connect", "pending", NoCorr)
               /\ UNCHANGED <<connection, replyQueue, connOpen, listening>>
          ELSE /\ ConnectThrows
               /\ UNCHANGED <<svc, connOpen, chanOpen, listening>>
     ELSE IF ~(ok /\ nConn \in chanOpen)
     THEN /\ ConnectThrows
          /\ UNCHANGED <<svc, connOpen, chanOpen, listening>>
     ELSE IF connectPc = "assertExchange"
     THEN /\ ConnectNext("assertQueue")
          /\ UNCHANGED <<svc, connOpen, chanOpen, listening>>
     ELSE IF connectPc = "assertQueue"
     THEN /\ ConnectNext("bindQueue")
          /\ UNCHANGED <<svc, connOpen, chanOpen, listening>>
     ELSE IF connectPc = "bindQueue"
     THEN /\ ConnectNext("assertReplyQueue")
          /\ UNCHANGED <<svc, connOpen, chanOpen, listening>>
     ELSE IF connectPc = "assertReplyQueue"
     THEN /\ replyQueue' = nConn
          /\ ConnectNext("consumeReply")
          /\ UNCHANGED <<connection, channel, connOpen, chanOpen, listening>>
     ELSE /\ listening' = listening \cup {nConn}
          /\ connectPc' = "idle"
          /\ last' = Ev("connect", "ok", NoCorr)
          /\ UNCHANGED <<svc, connOpen, chanOpen>>
  /\ UNCHANGED <<pendingRPCRequests, calls, micro, closePc, nConn, consumers,
                 published, delivered,
                 contract, mail>>

\* --------------------------------------------------------------- close
\* a loop that cancels the timers and forgets to reject
DrainOnlyCancels(cs, m) ==
  [c \in DOMAIN cs |->
     IF c \in MapValues(m) THEN clearTimeout(cs, c)[c] ELSE cs[c]]

\* the loop of close() (lines 306-309) over the entries of the registry
Drain(cs, m) ==
  [c \in DOMAIN cs |->
     IF c \in MapValues(m) THEN reject(clearTimeout(cs, c), c, ErrClosed)[c]
     ELSE cs[c]]

\* the synchronous part of close(): drain, clear, call this.channel?.close()
CloseCall ==
  /\ closePc = "idle"
  /\ calls' = Drain(calls, pendingRPCRequests)
  /\ pendingRPCRequests' = EmptyMap
  /\ IF channel = 0
     THEN /\ closePc' = "no channel"
          /\ UNCHANGED <<chanOpen, listening>>
     ELSE /\ closePc' = IF channel \in chanOpen THEN "channel.close"
                        ELSE "channel.close rejected"
          /\ chanOpen' = chanOpen \ {channel}
          /\ listening' = listening \ {channel}
  /\ consumers' = {x \in consumers : x[1] \in chanOpen'}
  /\ last' = Ev("close", "pending", NoCorr)
  /\ UNCHANGED <<svc, micro, connectPc, nConn, connOpen, published, delivered,
                 contract, mail>>

\* a reset that forgets the reply queue name
ResetFieldsKeepsReplyQueue ==
  /\ channel' = 0
  /\ connection' = 0
  /\ UNCHANGED replyQueue

\* the last three statements of close() (lines 315-317)
ResetFields ==
  /\ channel' = 0
  /\ connection' = 0
  /\ replyQueue' = 0

\* a rejected await: close() throws and the fields keep their values
CloseThrows ==
  /\ closePc' = "idle"
  /\ last' = Ev("close", "error", NoCorr)
  /\ UNCHANGED <<svc, connOpen, chanOpen, listening>>

CloseStep(ok) ==
  /\ closePc # "idle"
  /\ closePc \in {"channel.close", "channel.close rejected", "connection.close",
                  "connection.close rejected"} => ~MicrotasksPending
  /\ IF closePc \in {"channel.close", "no channel"}
     THEN IF closePc = "channel.close" /\ ~ok
          THEN CloseThrows
          ELSE /\ IF connection = 0
                  THEN /\ closePc' = "no connection"
                       /\ UNCHANGED <<connOpen, chanOpen, listening>>
                  ELSE /\ closePc' = IF connection \in connOpen THEN "connection.close"
                                     ELSE "connection.close rejected"
                       /\ connOpen' = connOpen \ {connection}
                       /\ chanOpen' = chanOpen \ {connection}
                       /\ listening' = listening \ {connection}
               /\ last' = Ev("close", "pending", NoCorr)
               /\ UNCHANGED svc
     ELSE IF closePc \in {"connection.close", "no connection"}
     THEN IF closePc = "connection.close" /\ ~ok
          THEN CloseThrows
          ELSE /\ ResetFields
               /\ closePc' = "idle"
               /\ last' = Ev("close", "ok", NoCorr)
               /\ UNCHANGED <<connOpen, chanOpen, listening>>
     ELSE CloseThrows
  /\ consumers' = {x \in consumers : x[1] \in chanOpen'}
  /\ UNCHANGED <<pendingRPCRequests, calls, micro, connectPc, nConn, published, delivered,
                 contract, mail>>

\* ------------------------------------------------- normalizeSendEmailDto
\* the characters of the strings in a dto; ";" separates addresses
Chars == {"a", ";"}
Texts == UNION {[1..n -> Chars] : n \in 0..MaxTextLen}

\* dto.to: an address list as one string, or an array of addresses
ToValues ==
  {StringValue(t) : t \in Texts} \cup {ArrayValue(<< >>), ArrayValue(<<<<"a">>, <<"a">>>>)}
\* dto.cc and dto.bcc: the same, optional
CopyValues == {Undefined, StringValue(<<"a", ";", "a">>), ArrayValue(<<<<"a">>>>)}
\* dto.fromDisplayName, dto.fromEmail and dto.html
OptionalStrings == {Undefined, StringValue(<<"a">>)}
\* dto.subject, dto.title, dto.body and dto.message; a string may be empty
Subjects == {Undefined, StringValue(<< >>), StringValue(<<"s">>)}
Titles == {Undefined, StringValue(<< >>), StringValue(<<"t">>)}
Bodies == {Undefined, StringValue(<< >>), StringValue(<<"b">>)}
Messages == {Undefined, StringValue(<< >>), StringValue(<<"m">>)}

SendEmailDtos ==
  [to : ToValues, cc : CopyValues, bcc : CopyValues,
   fromDisplayName : OptionalStrings, fromEmail : OptionalStrings,
   subject : Subjects, title : Titles, body : Bodies, message : Messages,
   html : OptionalStrings]

\* String.prototype.split(sep) for a one-character separator: the pieces
\* between the separators, an empty string giving one empty piece
RECURSIVE SplitFrom(_, _, _, _)
SplitFrom(text, sep, i, piece) ==
  IF i > Len(text) THEN <<piece>>
  ELSE IF text[i] = sep THEN <<piece>> \o SplitFrom(text, sep, i + 1, << >>)
  ELSE SplitFrom(text, sep, i + 1, Append(piece, text[i]))

split(text, sep) == SplitFrom(text, sep, 1, << >>)

\* lines 13-36: an array is copied, a string is split at ";", anything else
\* gives the empty list
ListOf(v) ==
  IF v.kind = "array" THEN v.items
  ELSE IF v.kind = "string" THEN split(v.text, ";")
  ELSE << >>

\* the right operand unless it is undefined
CoalesceRightFirst(a, b) == IF b # Undefined THEN b ELSE a

\* a ?? b: the left operand unless it is undefined
Coalesce(a, b) == IF a # Undefined THEN a ELSE b

\* lines 38-49
normalizeSendEmailDto(d) ==
  [to |-> ListOf(d.to),
   displayName |-> d.fromDisplayName,
   from |-> d.fromEmail,
   cc |-> ListOf(d.cc),
   bcc |-> ListOf(d.bcc),
   subject |-> Coalesce(d.subject, Coalesce(d.title, StringValue(<< >>))),
   body |-> Coalesce(d.body, Coalesce(d.message, StringValue(<< >>))),
   html |-> d.html]

\* a caller passes its SendEmailDto to normalizeSendEmailDto
Normalize ==
  /\ normalized = NoNormalized
  /\ normalized' = normalizeSendEmailDto(dto)
  /\ UNCHANGED <<svc, pendingRPCRequests, calls, micro, connectPc, closePc,
                 driver, consumers, published, delivered, last, dto, mail>>

\* ------------------------------------------------ EmailsService.sendEmail
\* EmailStatus
PENDING == "PENDING"
SENT == "SENT"
FAILED == "FAILED"

\* what emailProvider.send does: it reports success, reports failure, or
\* throws
ProviderOutcomes == {"success", "failure", "throws"}

\* what emailsRepository.update does: it completes; its UPDATE query fails;
\* or the UPDATE is done and one of the SELECTs after it fails
UpdateOutcomes == {"ok", "update failed", "select failed"}

\* sendEmail is called and awaits emailsRepository.save (lines 35-47)
SendEmailCall ==
  /\ Len(sendEmailCalls) < MaxEmails
  /\ sendEmailCalls' = Append(sendEmailCalls,
                              [pc |-> "save", id |-> 0, provider |-> "none",
                               status |-> PENDING])
  /\ UNCHANGED <<svc, pendingRPCRequests, calls, micro, connectPc, closePc,
                 driver, consumers, published, delivered, last, contract,
                 emailsTable>>

\* save resolves with the stored row, whose status is PENDING, and the
\* provider is invoked (line 52); or save rejects and so does sendEmail
SaveStep(i, ok) ==
  /\ sendEmailCalls[i].pc = "save"
  /\ IF ok
     THEN /\ emailsTable' = Append(emailsTable,
                                   [status |-> sendEmailCalls[i].status, error |-> ""])
          /\ sendEmailCalls' = [sendEmailCalls EXCEPT ![i].pc = "send",
                                                      ![i].id = Len(emailsTable) + 1]
     ELSE /\ sendEmailCalls' = [sendEmailCalls EXCEPT ![i].pc = "threw"]
          /\ UNCHANGED emailsTable
  /\ UNCHANGED <<svc, pendingRPCRequests, calls, micro, connectPc, closePc,
                 driver, consumers, published, delivered, last, contract>>

\* a status that does not look at the provider's result
StatusAfterAlwaysSent(outcome) == SENT

\* the status sendEmail asks the repository to store (lines 54-86)
StatusAfter(outcome) == IF outcome = "success" THEN SENT ELSE FAILED

\* the provider's promise settles; sendEmail calls emailsRepository.update
\* without awaiting it and returns its promise (lines 52-93)
ProviderStep(i, outcome) ==
  /\ sendEmailCalls[i].pc = "send"
  /\ sendEmailCalls' = [sendEmailCalls EXCEPT ![i].pc = "update",
                                              ![i].provider = outcome,
                                              ![i].status = StatusAfter(outcome)]
  /\ UNCHANGED <<svc, pendingRPCRequests, calls, micro, connectPc, closePc,
                 driver, consumers, published, delivered, last, contract,
                 emailsTable>>

\* update settles (emails.sql.repository.ts lines 122-175) and with it the
\* promise sendEmail returned: a rejection is outside the try block's awaits
\* and reaches the caller
UpdateStep(i, outcome) ==
  /\ sendEmailCalls[i].pc = "update"
  /\ emailsTable' =
       IF outcome = "update failed" THEN emailsTable
       ELSE [emailsTable EXCEPT ![sendEmailCalls[i].id] =
               [status |-> sendEmailCalls[i].status,
                error |-> IF sendEmailCalls[i].status = FAILED
                          THEN sendEmailCalls[i].provider ELSE ""]]
  /\ sendEmailCalls' = [sendEmailCalls EXCEPT
                          ![i].pc = IF outcome = "ok" THEN "returned" ELSE "threw"]
  /\ UNCHANGED <<svc, pendingRPCRequests, calls, micro, connectPc, closePc,
                 driver, consumers, published, delivered, last, contract>>

\* ---------------------------------------------------------- specification
\* the registry under concurrent calls, replies, timers and close()
Next ==
  \/ nConn + 1 \in ConnIds /\ ConnectCall
  \/ \E ok \in BOOLEAN : ConnectStep(ok)
  \/ \E q \in Queues, k \in CorrIds \cup {NoCorr}, s \in BOOLEAN :
       /\ RPCInitialized => Len(calls) < MaxCalls
       /\ SendRPC(q, k, 100, s)
  \/ PublishCatch
  \/ \E c \in DOMAIN calls : TimerFires(c)
  \/ \E ch \in listening, k \in AllCorr \cup {NoCorr}, b \in ReplyContents :
       ReplyArrives(ch, k, b)
  \/ CloseCall
  \/ \E ok \in BOOLEAN : CloseStep(ok)

Spec == Init /\ [][Next]_vars

\* the link through repeated connect() and close(), with every API call
NextLink ==
  \/ nConn + 1 \in LinkConnIds /\ ConnectCall
  \/ \E ok \in BOOLEAN : ConnectStep(ok)
  \/ \E q \in Queues, k \in LinkCorrIds, s \in BOOLEAN :
       /\ RPCInitialized => Len(calls) < MaxLinkCalls
       /\ SendRPC(q, k, 100, s)
  \/ PublishCatch
  \/ \E c \in DOMAIN calls : TimerFires(c)
  \/ \E ch \in listening, k \in LinkCorrIds \cup {NoCorr}, b \in ReplyContents :
       ReplyArrives(ch, k, b)
  \/ \E q \in Queues, s \in BOOLEAN : Publish(q, s)
  \/ \E q \in Queues : Consume(q)
  \/ CloseCall
  \/ \E ok \in BOOLEAN : CloseStep(ok)

SpecLink == Init /\ [][NextLink]_vars

\* sendRPC with every combination of target queue and options
NextOptions ==
  \/ nConn + 1 \in ConnIds /\ ConnectCall
  \/ \E ok \in BOOLEAN : ConnectStep(ok)
  \/ \E q \in RpcQueues, k \in LinkCorrIds \cup {NoCorr}, t \in TimeoutOpts,
        s \in BOOLEAN :
       /\ RPCInitialized => Len(calls) < MaxOptionCalls
       /\ SendRPC(q, k, t, s)
  \/ PublishCatch
  \/ \E c \in DOMAIN calls : TimerFires(c)
  \/ CloseCall
  \/ \E ok \in BOOLEAN : CloseStep(ok)

SpecOptions == Init /\ [][NextOptions]_vars

\* the responder side: consume(), deliveries, handlers that reply, and
\* sendRPCReply called directly, over one connect() and any close()
NextReply ==
  \/ nConn + 1 \in ConnIds /\ ConnectCall
  \/ \E ok \in BOOLEAN : ConnectStep(ok)
  \/ \E q \in Queues : Consume(q)
  \/ \E r \in ReplyTos, k \in LinkCorrIds, s \in BOOLEAN : SendRPCReplyCall(r, k, s)
  \/ \E x \in consumers, r \in ReplyTos \cup {NoReplyTo},
        k \in LinkCorrIds \cup {NoCorr}, b \in BOOLEAN :
       Deliver(x[1], x[2], r, k, b)
  \/ \E r \in Responses, s \in BOOLEAN : ContextReply(r, s)
  \/ \E throws \in BOOLEAN : HandlerEnds(throws)
  \/ CloseCall
  \/ \E ok \in BOOLEAN : CloseStep(ok)

SpecReply == Init /\ [][NextReply]_vars

\* the round trip: the service consumes the queue its own requests are
\* routed to, its handler replies, and the reply comes back to its listener
NextRoundTrip ==
  \/ nConn + 1 \in ConnIds /\ ConnectCall
  \/ \E ok \in BOOLEAN : ConnectStep(ok)
  \/ \E q \in Queues : Consume(q)
  \/ \E q \in Queues, k \in LinkCorrIds :
       /\ RPCInitialized => Len(calls) < MaxRoundTripCalls
       /\ SendRPC(q, k, 100, TRUE)
  \/ PublishCatch
  \/ \E c \in DOMAIN calls : TimerFires(c)
  \/ \E x \in consumers, c \in DOMAIN calls : DeliverRequest(x[1], x[2], c)
  \/ \E r \in Responses : ContextReply(r, TRUE)
  \/ \E throws \in BOOLEAN : HandlerEnds(throws)
  \/ \E ch \in listening, r \in Responses : ReplyOfDeliveredArrives(ch, r)
  \/ CloseCall
  \/ \E ok \in BOOLEAN : CloseStep(ok)

SpecRoundTrip == Init /\ [][NextRoundTrip]_vars

\* requests before and after a close() and a second connect()
NextReconnect ==
  \/ nConn + 1 \in LinkConnIds /\ ConnectCall
  \/ \E ok \in BOOLEAN : ConnectStep(ok)
  \/ \E q \in Queues, k \in LinkCorrIds :
       /\ RPCInitialized => Len(calls) < MaxReconnectCalls
       /\ SendRPC(q, k, 100, TRUE)
  \/ PublishCatch
  \/ \E c \in DOMAIN calls : TimerFires(c)
  \/ CloseCall
  \/ \E ok \in BOOLEAN : CloseStep(ok)

SpecReconnect == Init /\ [][NextReconnect]_vars

\* the event loop under its scheduling: a queued reaction and a close()
\* resumed from an await run as soon as the running slice ends; a timer that
\* is live is run in some later turn of the loop, however often microtasks
\* get in its way
Fairness ==
  /\ WF_vars(PublishCatch)
  /\ WF_vars(\E ok \in BOOLEAN : CloseStep(ok))
  /\ \A c \in 1..MaxCalls : SF_vars(c \in DOMAIN calls /\ TimerFires(c))

SpecFair == Init /\ [][Next]_vars /\ Fairness

\* consumers and their messages through repeated connect() and close()
NextConsume ==
  \/ nConn + 1 \in LinkConnIds /\ ConnectCall
  \/ \E ok \in BOOLEAN : ConnectStep(ok)
  \/ \E q \in Queues : Consume(q)
  \/ \E x \in consumers, b \in BOOLEAN : Deliver(x[1], x[2], NoReplyTo, NoCorr, b)
  \/ \E throws \in BOOLEAN : HandlerEnds(throws)
  \/ CloseCall
  \/ \E ok \in BOOLEAN : CloseStep(ok)

SpecConsume == Init /\ [][NextConsume]_vars

\* the caller's SendEmailDto is any value of the type
InitNormalize ==
  /\ InitService
  /\ dto \in SendEmailDtos
  /\ normalized = NoNormalized
  /\ sendEmailCalls = << >>
  /\ emailsTable = << >>

NextNormalize == Normalize

SpecNormalize == InitNormalize /\ [][NextNormalize]_vars

\* concurrent sendEmail calls over one repository
NextEmails ==
  \/ SendEmailCall
  \/ \E i \in DOMAIN sendEmailCalls, ok \in BOOLEAN : SaveStep(i, ok)
  \/ \E i \in DOMAIN sendEmailCalls, o \in ProviderOutcomes : ProviderStep(i, o)
  \/ \E i \in DOMAIN sendEmailCalls, o \in UpdateOutcomes : UpdateStep(i, o)

SpecEmails == Init /\ [][NextEmails]_vars

\* ------------------------------------------------------------------ claims

\* C1: a call is resolved only by a reply that carries the call's own
\* correlation id, whatever the order in which replies arrive; the value it
\* resolves with is the parsed content of that reply.
ResolvedByOwnReply ==
  \A c \in DOMAIN calls :
    calls[c].promise.kind = "resolved" =>
      /\ calls[c].promise.from = calls[c].corr
      /\ \E b \in ReplyContents :
           JSONParse(b).ok /\ calls[c].promise.value = JSONParse(b).value

\* two calls with distinct ids pending together, the later one resolved first
ResolvedOutOfOrderWitness ==
  /\ Len(calls) >= 2
  /\ calls[1].corr # calls[2].corr
  /\ calls[1].promise.kind = "pending"
  /\ calls[1].corr \in DOMAIN pendingRPCRequests
  /\ calls[2].promise.kind = "resolved"
  /\ last.op = "handleRPCReply"

\* C2: the resolve and reject callbacks of a call are invoked at most once
\* in total.
SettledAtMostOnce ==
  \A c \in DOMAIN calls : calls[c].resolves + calls[c].rejects <= 1

\* C3: when the timer of a call fires, no entry is left under the call's
\* correlation id and the call's promise is rejected with the timeout error.
TimeoutRemovesAndRejects ==
  [][\A c \in DOMAIN calls :
       (calls[c].timer = "live" /\ calls'[c].timer = "fired") =>
         /\ calls[c].corr \notin DOMAIN pendingRPCRequests'
         /\ calls'[c].promise.kind = "rejected"
         /\ calls'[c].promise.err = ErrTimeout
         /\ calls'[c].rejects = 1 /\ calls'[c].resolves = 0]_vars

\* a call in the registry timed out
TimeoutWitness ==
  /\ last.op = "timeout"
  /\ \E c \in DOMAIN calls :
       /\ calls[c].timer = "fired"
       /\ calls[c].promise.err = ErrTimeout
       /\ calls[c].corr \notin DOMAIN pendingRPCRequests

\* C4: a reply without a correlation id, or with one that has no entry in the
\* registry, changes nothing: no promise is settled, no timer touched, no
\* entry removed, and the listener does not throw.
UnknownReplyDiscarded ==
  [][(/\ last'.op = "handleRPCReply"
      /\ \/ last'.corr = NoCorr
         \/ last'.corr \notin DOMAIN pendingRPCRequests)
     => /\ last'.outcome \in {"no correlationId", "unknown"}
        /\ UNCHANGED <<calls, pendingRPCRequests, svc, micro, published>>]_vars

\* a reply arrives for a call that has timed out
LateReplyWitness ==
  /\ last.op = "handleRPCReply"
  /\ last.outcome = "unknown"
  /\ \E c \in DOMAIN calls :
       /\ calls[c].corr = last.corr
       /\ calls[c].promise.kind = "rejected"
       /\ calls[c].promise.err = ErrTimeout
       /\ calls[c].rejects = 1

\* C5: the synchronous part of close() rejects every call whose promise is
\* still pending with the connection-closed error and empties the registry.
CloseRejectsEveryPending ==
  [][(closePc = "idle" /\ closePc' # "idle") =>
       /\ DOMAIN pendingRPCRequests' = {}
       /\ \A c \in DOMAIN calls :
            calls[c].promise.kind = "pending" =>
              /\ calls'[c].promise.kind = "rejected"
              /\ calls'[c].promise.err = ErrClosed]_vars

\* C6: when close() has returned no timer of any call is live.
NoLiveTimerAfterClose ==
  (last.op = "close" /\ last.outcome = "ok") =>
    \A c \in DOMAIN calls : calls[c].timer # "live"

\* C7: sendRPC never replaces the entry of a correlation id that is pending.
DuplicateIdRefused ==
  [][last'.op = "sendRPC" =>
       \A k \in DOMAIN pendingRPCRequests :
         /\ k \in DOMAIN pendingRPCRequests'
         /\ pendingRPCRequests'[k] = pendingRPCRequests[k]]_vars

\* the link is Ready: connect() has completed (the reply listener is attached
\* to the current channel) and neither connect() nor close() is running
Ready ==
  /\ connectPc = "idle"
  /\ closePc = "idle"
  /\ channel # 0
  /\ channel \in listening

\* C8: sendRPC, publish and consume are accepted only while the link is
\* Ready; in every other state the call is refused and changes nothing.
OnlyValidWhenReady ==
  [][(last'.op \in {"sendRPC", "publish", "consume"} /\ ~Ready) =>
       /\ last'.outcome \notin {"ok", "pending"}
       /\ UNCHANGED <<calls, pendingRPCRequests, micro, published, consumers>>]_vars

\* C9: sendRPC with the channel or the reply queue unset fails with the
\* not-initialized error, registers nothing, starts no timer, publishes nothing.
SendRPCNotInitialized ==
  [][(last'.op = "sendRPC" /\ (channel = 0 \/ replyQueue = 0)) =>
       /\ last'.outcome = ErrRPCNotInit
       /\ UNCHANGED <<calls, pendingRPCRequests, micro, published, svc>>]_vars

\* sendRPC refused after close() has completed on a link that had accepted a
\* call before
SendRPCAfterCloseWitness ==
  /\ last.op = "sendRPC"
  /\ last.outcome = ErrRPCNotInit
  /\ Len(calls) > 0
  /\ channel = 0 /\ connection = 0 /\ replyQueue = 0
  /\ connectPc = "idle" /\ closePc = "idle"

\* C10: the catch reaction of a failed publish leaves no entry under the
\* call's id, leaves its timer not live and its promise rejected with the
\* publish error.
PublishFailureRejects ==
  [][last'.op = "publishCatch" =>
       LET c == Head(micro)
       IN /\ calls[c].corr \notin DOMAIN pendingRPCRequests'
          /\ calls'[c].timer # "live"
          /\ calls'[c].promise.kind = "rejected"
          /\ calls'[c].promise.err = ErrPublish]_vars

\* C11: in every reachable state a call whose timer is live still has its
\* own entry in the registry: an entry that left the registry by a reply, a
\* publish failure, close() or a replacing registration has no live timer.
LiveTimerHasEntry ==
  \A c \in DOMAIN calls :
    calls[c].timer = "live" =>
      /\ calls[c].corr \in DOMAIN pendingRPCRequests
      /\ pendingRPCRequests[calls[c].corr] = c


\* C12: under the fairness of the event loop every call accepted by sendRPC
\* is eventually settled: its promise is resolved or rejected.
AcceptedEventuallySettled ==
  \A c \in 1..MaxCalls :
    (c \in DOMAIN calls) ~> (c \in DOMAIN calls /\ calls[c].promise.kind # "pending")

\* a call that lost its entry to a later registration of the same id was
\* settled by its own timer, the later call by the reply
ReplacedCallSettledWitness ==
  /\ Len(calls) >= 2
  /\ calls[1].corr = calls[2].corr
  /\ calls[1].promise.kind = "rejected"
  /\ calls[1].promise.err = ErrTimeout
  /\ calls[2].promise.kind = "resolved"


\* C13: close() called on a service whose channel, connection and reply queue
\* are null does not throw and leaves these three fields and the registry as
\* they were.
CloseWhenClosedChangesNothing ==
  [][(/\ last'.op = "close"
      /\ channel = 0 /\ connection = 0 /\ replyQueue = 0)
     => /\ last'.outcome # "error"
        /\ UNCHANGED <<svc, pendingRPCRequests>>]_vars


\* C14: close() never raises: whenever a close() call has ended, it has
\* returned normally and channel, connection and reply queue are null, also
\* when closing the channel or the connection failed.
CloseNeverRaises ==
  (last.op = "close" /\ last.outcome # "pending") =>
    /\ last.outcome = "ok"
    /\ channel = 0 /\ connection = 0 /\ replyQueue = 0


\* C15: the request of sendRPC is published to the destination named by the
\* queue argument: the requests of two calls with different target queues
\* are published to different destinations.
TargetQueueIsDestination ==
  \A c, d \in DOMAIN calls :
    calls[c].queue # calls[d].queue =>
      \A e \in calls[c].sent, f \in calls[d].sent : Destination(e) # Destination(f)


\* C16: the envelope published by an accepted sendRPC carries replyTo equal
\* to the current reply queue, correlationId equal to the key under which the
\* call was registered, and expiration equal to the decimal string of the
\* call's timeout in milliseconds.
EnvelopeCarriesRPCProperties ==
  [][(last'.op = "sendRPC" /\ Len(calls') = Len(calls) + 1) =>
       LET n == Len(calls')
       IN \A e \in calls'[n].sent :
            /\ e \in published'
            /\ e.replyTo = replyQueue
            /\ e.correlationId \in DOMAIN pendingRPCRequests'
            /\ pendingRPCRequests'[e.correlationId] = n
            /\ e.expiration = NumberToString(calls'[n].timeout)]_vars

\* a request with the default timeout and a generated id has just been
\* published
DefaultEnvelopeWitness ==
  /\ last.op = "sendRPC"
  /\ Len(calls) > 0
  /\ \E e \in calls[Len(calls)].sent :
       /\ e.expiration = "30000"
       /\ e.correlationId = randomUUID(Len(calls))
       /\ e.replyTo = replyQueue
       /\ e \in published

\* C17: when the caller supplies options.correlationId, the call is
\* registered under that id and the published envelope carries it.
SuppliedCorrelationIdUsed ==
  [][(last'.op = "sendRPC" /\ last'.outcome = "pending" /\ last'.corr # NoCorr) =>
       LET n == Len(calls')
       IN /\ calls'[n].corr = last'.corr
          /\ last'.corr \in DOMAIN pendingRPCRequests'
          /\ pendingRPCRequests'[last'.corr] = n
          /\ \A e \in calls'[n].sent : e.correlationId = last'.corr]_vars

\* a request with the caller's id "A" has just been published and registered
SuppliedCorrelationIdWitness ==
  /\ last.op = "sendRPC"
  /\ last.corr = "A"
  /\ Len(calls) > 0
  /\ calls[Len(calls)].sent # {}
  /\ \A e \in calls[Len(calls)].sent : e.correlationId = "A"
  /\ "A" \in DOMAIN pendingRPCRequests
  /\ pendingRPCRequests["A"] = Len(calls)


\* C18: every message sent by sendRPCReply, called directly or through
\* context.reply, goes to the given replyTo queue, carries the given
\* correlation id and has no replyTo of its own; a call that succeeds has
\* sent such a message.
ReplySentToReplyTo ==
  [][last'.op \in {"sendRPCReply", "context.reply"} =>
       /\ \A e \in published' \ published :
            /\ Destination(e) = <<"", last'.to>>
            /\ e.correlationId = last'.corr
            /\ e.replyTo = 0
       /\ (last'.outcome = "ok" /\ last'.to # NoReplyTo /\ last'.corr # NoCorr) =>
            \E e \in published' :
              /\ Destination(e) = <<"", last'.to>>
              /\ e.correlationId = last'.corr
              /\ e.replyTo = 0]_vars

\* a handler has replied to a request through context.reply
ContextReplySentWitness ==
  /\ last.op = "context.reply"
  /\ last.outcome = "ok"
  /\ delivered.replyTo = "amq.gen-2"
  /\ delivered.correlationId = "A"
  /\ \E e \in published :
       /\ e.routingKey = "amq.gen-2"
       /\ e.correlationId = "A"
       /\ e.replyTo = 0
  /\ \A e \in published : e.routingKey # "amq.gen-1"

\* C19: sendRPCReply called while the channel is null fails with the
\* channel-not-initialized error and sends nothing.
SendRPCReplyChannelDown ==
  [][(/\ \/ last'.op = "sendRPCReply"
         \/ last'.op = "context.reply" /\ HasReplyProperties(delivered)
      /\ channel = 0)
     => /\ last'.outcome = ErrChannelNotInit
        /\ UNCHANGED <<published, svc, delivered, consumers>>]_vars

\* sendRPCReply refused after the link was connected and closed
SendRPCReplyAfterCloseWitness ==
  /\ last.op = "sendRPCReply"
  /\ last.outcome = ErrChannelNotInit
  /\ nConn > 0
  /\ channel = 0 /\ connection = 0 /\ replyQueue = 0
  /\ connectPc = "idle" /\ closePc = "idle"

\* C20: context.reply on a message that lacks replyTo or correlationId sends
\* nothing and raises no error; on a message that has both it sends nothing
\* but a reply to the message's replyTo with the message's correlation id.
ContextReplyNeedsBoth ==
  [][last'.op = "context.reply" =>
       IF delivered.replyTo = NoReplyTo \/ delivered.correlationId = NoCorr
       THEN /\ last'.outcome = "ok"
            /\ published' = published
       ELSE /\ \A e \in published' \ published :
                 /\ e.routingKey = delivered.replyTo
                 /\ e.correlationId = delivered.correlationId
            /\ last'.outcome = "ok" =>
                 \E e \in published' :
                   /\ e.routingKey = delivered.replyTo
                   /\ e.correlationId = delivered.correlationId]_vars

\* a handler called context.reply on a message with a replyTo and no
\* correlation id, and nothing was sent
ContextReplySkippedWitness ==
  /\ last.op = "context.reply"
  /\ last.outcome = "ok"
  /\ delivered.state = "handling"
  /\ delivered.replyTo # NoReplyTo
  /\ delivered.correlationId = NoCorr
  /\ published = {}


\* C21: for every message handed to a consume handler exactly one
\* acknowledgement decision is issued once the handler has ended: an ack if
\* the handler returned, a nack without requeue if it threw.
OneAckDecision ==
  /\ delivered.handler = "returned" => delivered.state = "acked"
  /\ delivered.handler = "threw" => delivered.state = "nacked"


\* C22: a reply for a pending correlation id whose payload cannot be decoded
\* removes the entry, cancels the call's timer and rejects the call's promise
\* with the reply-parse error.
UnparsableReplyRejects ==
  [][(last'.op = "handleRPCReply" /\ last'.outcome = ErrParse) =>
       /\ last'.corr \in DOMAIN pendingRPCRequests
       /\ last'.corr \notin DOMAIN pendingRPCRequests'
       /\ LET c == pendingRPCRequests[last'.corr]
          IN /\ calls[c].promise.kind = "pending"
             /\ calls'[c].timer # "live"
             /\ calls'[c].promise.kind = "rejected"
             /\ calls'[c].promise.err = ErrParse]_vars

\* a pending call was rejected by an undecodable reply while its timer was
\* live
UnparsableReplyWitness ==
  /\ last.op = "handleRPCReply"
  /\ last.outcome = ErrParse
  /\ \E c \in DOMAIN calls :
       /\ calls[c].corr = last.corr
       /\ calls[c].timer = "cleared"
       /\ calls[c].promise.err = ErrParse
       /\ calls[c].rejects = 1 /\ calls[c].resolves = 0
  /\ last.corr \notin DOMAIN pendingRPCRequests


\* C23: when the response r that a handler sent for the request of a call
\* arrives at the reply listener before the call's timeout and before
\* close(), the call's promise is resolved with r.
RoundTripResolves ==
  [][(/\ last'.op = "handleRPCReply"
      /\ delivered.request # 0
      /\ delivered'.replied # delivered.replied
      /\ calls[delivered.request].promise.kind = "pending"
      /\ calls[delivered.request].timer = "live")
     => \E r \in delivered.replied \ delivered'.replied :
          /\ calls'[delivered.request].promise.kind = "resolved"
          /\ calls'[delivered.request].promise.value = r]_vars


\* C24: over every sequence of connect() and close() calls at most one reply
\* listener feeds the registry at any time.
AtMostOneReplyListener == Cardinality(listening) <= 1


\* C25: when close() returns, channel, connection and reply queue name are
\* null; close() takes every request made before it out of the registry and
\* none of them is registered again; and a connect() that completes with its
\* channel in place has declared its own reply queue and attached its
\* listener, so that sendRPC passes its guard.
CloseThenConnectIsClean ==
  [][/\ (last'.op = "close" /\ last'.outcome = "ok") =>
          (channel' = 0 /\ connection' = 0 /\ replyQueue' = 0)
     /\ (closePc = "idle" /\ closePc' # "idle") =>
          \A c \in DOMAIN calls : c \notin MapValues(pendingRPCRequests')
     /\ \A c \in DOMAIN calls :
          c \notin MapValues(pendingRPCRequests) =>
            c \notin MapValues(pendingRPCRequests')
     /\ (last'.op = "connect" /\ last'.outcome = "ok" /\ channel' = nConn) =>
          /\ replyQueue' = nConn
          /\ nConn \in listening'
          /\ nConn \in chanOpen'
          /\ RPCInitialized']_vars

\* a request was drained by close(), the service was connected again, and a
\* second request is registered alone on the new link
ReconnectedWitness ==
  /\ Len(calls) = 2
  /\ calls[1].promise.err = ErrClosed
  /\ calls[1].timer = "cleared"
  /\ last.op = "sendRPC" /\ last.outcome = "pending"
  /\ nConn = 2 /\ connection = 2 /\ channel = 2 /\ replyQueue = 2
  /\ connOpen = {2} /\ listening = {2}
  /\ MapValues(pendingRPCRequests) = {2}
  /\ calls[2].sent # {}
  /\ \A e \in calls[2].sent : e.replyTo = 2


\* C26: close() works in this order: first it rejects every pending request
\* with the connection-closed error and clears the registry, then it closes
\* the channel, then the connection; it rejects nothing after its first step
\* and closes the connection only after the channel's close was awaited.
CloseStepsInOrder ==
  [][/\ (closePc = "idle" /\ closePc' # "idle") =>
          /\ DOMAIN pendingRPCRequests' = {}
          /\ \A c \in DOMAIN calls :
               calls[c].promise.kind = "pending" =>
                 calls'[c].promise.err = ErrClosed
     /\ \A c \in DOMAIN calls :
          (calls[c].promise.kind = "pending" /\ calls'[c].promise.err = ErrClosed)
            => closePc = "idle"
     /\ (last'.op = "close" /\ connOpen' # connOpen) =>
          closePc \in {"channel.close", "no channel"}]_vars


\* C27: a correlation id whose earlier requests are all settled can be used
\* again: the later sendRPC is registered as a fresh pending request with a
\* live timer, and when its entry is removed or its promise settled by a
\* timer, the timer is its own, and when by a reply, the reply carries its id.
ReusedIdIsFresh ==
  [][\A d \in DOMAIN calls' :
       LET k == calls'[d].corr
       IN (\A c \in 1 .. (d - 1) :
             calls[c].corr = k => calls[c].promise.kind # "pending")
          => /\ d \notin DOMAIN calls =>
                  /\ k \in DOMAIN pendingRPCRequests'
                  /\ pendingRPCRequests'[k] = d
                  /\ calls'[d].promise.kind = "pending"
                  /\ calls'[d].timer = "live"
             /\ (/\ d \in DOMAIN calls
                 /\ k \in DOMAIN pendingRPCRequests
                 /\ pendingRPCRequests[k] = d
                 /\ \/ k \notin DOMAIN pendingRPCRequests'
                    \/ calls'[d].promise # calls[d].promise)
                => /\ last'.op = "timeout" => calls'[d].timer = "fired"
                   /\ last'.op = "handleRPCReply" => last'.corr = k]_vars

\* an id is registered again after its first request has timed out
ReusedIdWitness ==
  /\ Len(calls) = 2
  /\ calls[1].corr = calls[2].corr
  /\ calls[1].promise.err = ErrTimeout
  /\ calls[1].timer = "fired"
  /\ calls[2].promise.kind = "pending"
  /\ calls[2].timer = "live"
  /\ calls[2].corr \in DOMAIN pendingRPCRequests
  /\ pendingRPCRequests[calls[2].corr] = 2
  /\ last.op = "sendRPC"


\* C28: the callback of consume() never ends with an error that nobody
\* catches, whether the handler fails or finishes after close().
NoUncaughtError == delivered.state # "uncaught"


SubjectAndBodyFallBack ==
  normalized # NoNormalized =>
    /\ normalized.subject =
         IF dto.subject.kind = "string" THEN dto.subject
         ELSE IF dto.title.kind = "string" THEN dto.title
         ELSE StringValue(<< >>)
    /\ normalized.body =
         IF dto.body.kind = "string" THEN dto.body
         ELSE IF dto.message.kind = "string" THEN dto.message
         ELSE StringValue(<< >>)

\* a dto with both a subject and a title, and with a message but no body,
\* was normalized: the subject precedes the title, the message stands in for
\* the body
SubjectPrecedesTitleWitness ==
  /\ normalized # NoNormalized
  /\ dto.subject = StringValue(<<"s">>)
  /\ dto.title = StringValue(<<"t">>)
  /\ dto.body = Undefined
  /\ dto.message = StringValue(<<"m">>)
  /\ normalized.subject = StringValue(<<"s">>)
  /\ normalized.body = StringValue(<<"m">>)

\* C31: whenever the channel is null, the registry of pending RPC requests
\* is empty.
DisconnectedHasNoPending ==
  channel = 0 => DOMAIN pendingRPCRequests = {}


\* C32: the registry entry removed by a timeout callback or by a
\* publish-failure handler is the entry of the sendRPC call the callback or
\* handler belongs to, never the entry of another call.
RemovesOnlyOwnEntry ==
  [][last'.op \in {"timeout", "publishCatch"} =>
       \A k \in DOMAIN pendingRPCRequests \ DOMAIN pendingRPCRequests' :
         LET c == pendingRPCRequests[k]
         IN IF last'.op = "timeout"
            THEN calls[c].timer = "live" /\ calls'[c].timer = "fired"
            ELSE c = Head(micro)]_vars


\* C33: every registry entry belongs to a request whose promise is unsettled
\* and whose timer is live, and every unsettled request has an entry in the
\* registry.
RegistryMatchesUnsettled ==
  /\ \A k \in DOMAIN pendingRPCRequests :
       LET c == pendingRPCRequests[k]
       IN /\ calls[c].corr = k
          /\ calls[c].promise = Pending
          /\ calls[c].timer = "live"
  /\ \A c \in DOMAIN calls :
       calls[c].promise = Pending =>
         /\ calls[c].corr \in DOMAIN pendingRPCRequests
         /\ pendingRPCRequests[calls[c].corr] = c


\* C34: when connect() fails at any step, channel, connection and reply
\* queue name are null afterwards, so that every operation still fails as not
\* initialized; and the reply queue name is never set while no reply listener
\* is attached for it.
FailedConnectLeavesDisconnected ==
  [][/\ (last'.op = "connect" /\ last'.outcome = "error") =>
          /\ channel' = 0
          /\ connection' = 0
          /\ replyQueue' = 0
          /\ ~RPCInitialized'
          /\ ~ChannelInitialized'
     /\ replyQueue' # 0 => replyQueue' \in listening']_vars


\* C35: a consumed message whose payload cannot be parsed is nacked without
\* requeue, and its handler is never invoked.
UnparsableIsNacked ==
  [][/\ (last'.op = "deliver" /\ last'.outcome # "handling") =>
          /\ delivered'.state = "nacked"
          /\ delivered'.handler = "none"
     /\ (delivered.state # "none" /\ delivered.handler = "none"
           /\ last'.op # "deliver") =>
          /\ delivered'.handler = "none"
          /\ delivered'.state = delivered.state]_vars

\* C36: a timeout option of 0 is treated as unspecified: the timer of the
\* accepted call is scheduled for 30000 ms and the published expiration is
\* "30000", not "0".
ZeroTimeoutIsDefault ==
  [][(/\ last'.op = "sendRPC"
      /\ Len(calls') = Len(calls) + 1
      /\ calls'[Len(calls')].timeoutOpt = 0) =>
       LET n == Len(calls')
       IN /\ calls'[n].timeout = 30000
          /\ calls'[n].timer = "live"
          /\ \A e \in calls'[n].sent :
               e.expiration = "30000" /\ e.expiration # NumberToString(0)]_vars

\* a request with timeout 0 and the caller's id "A" has just been published
\* with the default expiration
ZeroTimeoutWitness ==
  /\ last.op = "sendRPC"
  /\ last.corr = "A"
  /\ Len(calls) > 0
  /\ calls[Len(calls)].timeoutOpt = 0
  /\ calls[Len(calls)].timeout = 30000
  /\ calls[Len(calls)].timer = "live"
  /\ \E e \in calls[Len(calls)].sent : e.expiration = "30000" /\ e \in published

\* C37: the email is stored with status PENDING before the provider is
\* invoked, and once sendEmail has returned the stored status is SENT if
\* the provider reported success and FAILED if it reported failure or threw,
\* never PENDING.
SendEmailStatus ==
  \A i \in DOMAIN sendEmailCalls :
    LET call == sendEmailCalls[i]
    IN /\ call.provider # "none" => call.id \in DOMAIN emailsTable
       /\ call.pc = "send" =>
            /\ call.id \in DOMAIN emailsTable
            /\ emailsTable[call.id].status = PENDING
       /\ call.pc = "returned" =>
            /\ emailsTable[call.id].status # PENDING
            /\ emailsTable[call.id].status = SENT <=> call.provider = "success"
            /\ emailsTable[call.id].status = FAILED <=>
                 call.provider \in {"failure", "throws"}

\* two sendEmail calls have returned, one whose provider reported success
\* and one whose provider threw
SentAndFailedWitness ==
  \E i, j \in DOMAIN sendEmailCalls :
    /\ sendEmailCalls[i].pc = "returned"
    /\ sendEmailCalls[i].provider = "success"
    /\ emailsTable[sendEmailCalls[i].id].status = SENT
    /\ sendEmailCalls[j].pc = "returned"
    /\ sendEmailCalls[j].provider = "throws"
    /\ emailsTable[sendEmailCalls[j].id].status = FAILED


====
